---- MODULE Spec2Model ----
(***************************************************************************)
(* State-machine model of the speech channel decoder driver, cdecoder.c    *)
(* (main), together with the part of init_params.c that main depends on.   *)
(* The program is sequential; pc (and sf inside the AMR write sequence)    *)
(* is the position of main in its text.                                    *)
(***************************************************************************)
EXTENDS Integers, Sequences, FiniteSets, TLC

(* ----------------------------- bounds --------------------------------- *)
\* Largest number of time-slots an input file holds.
MaxSlots == 13
\* Largest number of slots of one input on which Channel_Decoding reports a
\* bad frame.
MaxBadFrames == 1
\* Largest magnitude of a raw CRC table entry.
MaxRawEntry == 4
\* Largest number of entries of a raw CRC table.
MaxTabLen == 2
\* Largest value of the constants N1_2_TETRA and N1_2_AMR475.
MaxN1_2 == 2

(* ------------------------- program constants -------------------------- *)
SlotLen == 432
HalfSlot == 216
StealPeriod == 10
StealPhase == 2
TetraFrameLen == 137
AmrRecordBits == 244
AmrTailLen == 4
Length_vocoder_frame_TETRA == 137
Length_vocoder_frame_AMR475 == 95
SizeofShort == 2

(* --------------------------- command line ----------------------------- *)
\* An argument is a sequence of characters.
Digits == <<"0", "1", "2", "3", "4", "5", "6", "7", "8", "9">>

IsDigit(c) == \E d \in 1..10 : Digits[d] = c

DigitVal(c) == (CHOOSE d \in 1..10 : Digits[d] = c) - 1

RECURSIVE AtoiDigits(_, _, _)
AtoiDigits(s, i, acc) ==
    IF i > Len(s) \/ ~IsDigit(s[i]) THEN acc
    ELSE AtoiDigits(s, i + 1, 10 * acc + DigitVal(s[i]))

\* atoi: optional sign, then the longest run of decimal digits.
atoi(s) ==
    IF Len(s) = 0 THEN 0
    ELSE IF s[1] = "-" THEN 0 - AtoiDigits(s, 2, 0)
    ELSE IF s[1] = "+" THEN AtoiDigits(s, 2, 0)
    ELSE AtoiDigits(s, 1, 0)

\* argv[k][0]; the empty string starts with its terminator.
FirstChar(s) == IF Len(s) = 0 THEN "NUL" ELSE s[1]

ProgName == <<"c">>
InName == <<"i">>
OutName == <<"o">>
CoderArgs == {<<"0">>, <<"1">>, <<"2">>, <<"-", "1">>}
StealArgs == {<<"S">>, <<"S", "X">>, <<"s">>}

Argvs ==
    {<<ProgName>>, <<ProgName, InName>>, <<ProgName, InName, OutName>>}
    \cup {<<ProgName, InName, OutName, c>> : c \in CoderArgs}
    \cup {<<ProgName, InName, OutName, c, s>> : c \in {<<"0">>, <<"1">>}, s \in StealArgs}
    \cup {<<ProgName, InName, OutName, <<"1">>, <<"S">>, <<"S">>>>}

(* ------------------------------ state --------------------------------- *)
VARIABLES
    pc,                       \* position of main
    sf,                       \* speech frame being written (AMR), 1..3
    argv,                     \* command line, argv[k] of C is argv[k+1]
    CoderType, FRAME_STEALING, Frame_stealing,
    SpFrms_per_TDMFrm, Length_vocoder_frame,
    Loop_counter, first_pass, bfi1, bfi2, bfi3, mode,
    Interleaved_coded_array, Coded_array, Reordered_array,
    fin,                      \* slots read from the input file so far
    fout,                     \* output file: the segments written, in order
    foutErr,                  \* the output stream has failed
    stdout,                   \* messages printed, in order
    calls,                    \* subroutine calls made for the current slot
    nBad,                     \* slots so far on which the decoder reported a bad frame
    exitCode,                 \* -1 while running
    tabs,                     \* what the included .tab files define
    N1_2,                     \* globals.c
    TAB_CRC                   \* one of TAB_CRC1..8, Fs_TAB_CRC1..4, entries 0..SIZE-1

vars == <<pc, sf, argv, CoderType, FRAME_STEALING, Frame_stealing,
          SpFrms_per_TDMFrm, Length_vocoder_frame,
          Loop_counter, first_pass, bfi1, bfi2, bfi3, mode,
          Interleaved_coded_array, Coded_array, Reordered_array,
          fin, fout, foutErr, stdout, calls, nBad, exitCode,
          tabs, N1_2, TAB_CRC>>

tabvars == <<tabs, N1_2, TAB_CRC>>

argc == Len(argv)

Arg(k) == argv[k + 1]

Idx == 0..(SlotLen - 1)

\* An array of samples is held as its runs: n consecutive elements that are
\* elements at, at + 1, ... of one origin (tag, slot): the samples of input
\* slot `slot` ("In"), the output of a deinterleaver applied to that slot,
\* or nothing yet ("Undef").
Run(n, tag, slot, at) == [n |-> n, tag |-> tag, slot |-> slot, at |-> at]

Undef(n) == <<Run(n, "Undef", 0, 0)>>

Min(a, b) == IF a < b THEN a ELSE b

RECURSIVE Slice(_, _, _)
\* The n elements a[from], ..., a[from + n - 1].
Slice(a, from, n) ==
    IF (n = 0) \/ (a = <<>>) THEN <<>>
    ELSE LET r == a[1]
         IN  IF from >= r.n THEN Slice(Tail(a), from - r.n, n)
             ELSE LET k == Min(n, r.n - from)
                  IN  <<Run(k, r.tag, r.slot, r.at + from)>>
                      \o Slice(Tail(a), 0, n - k)

\* The element a[i].
At(a, i) == LET r == Slice(a, i, 1)[1] IN <<r.tag, r.slot, r.at>>

(* ------------------------- included tables --------------------------- *)
RawEntries == (0 - MaxRawEntry)..MaxRawEntry

RECURSIVE SeqsUpTo(_, _)
\* The sequences over S of length at most n.
SeqsUpTo(S, n) ==
    IF n = 0 THEN {<<>>}
    ELSE LET shorter == SeqsUpTo(S, n - 1)
         IN  shorter \cup {Append(q, x) : q \in shorter, x \in S}

\* The constants N1_2_TETRA (const_TETRA.tab) and N1_2_AMR475
\* (const_AMR475.tab), and the raw CRC table TAB_CRC of the coder type the
\* run selects (arrays_TETRA.tab, arrays_AMR475.tab).
TabFiles ==
    [N1_2_TETRA : 1..MaxN1_2, N1_2_AMR475 : 1..MaxN1_2,
     TAB_CRC : SeqsUpTo(RawEntries, MaxTabLen)]

\* The tables the decoder is run with when the tables are not the subject.
SampleTabs == [N1_2_TETRA |-> 2, N1_2_AMR475 |-> 1, TAB_CRC |-> <<3, -3, -4>>]

InitFrom(argvs, tabfiles) ==
    /\ pc = "args"
    /\ sf = 0
    /\ argv \in argvs
    /\ tabs \in tabfiles
    /\ N1_2 = 0
    /\ TAB_CRC = [i \in 1..Len(tabs.TAB_CRC) |-> 0]
    /\ CoderType = 0
    /\ FRAME_STEALING = FALSE
    /\ Frame_stealing = 0
    /\ SpFrms_per_TDMFrm = 0
    /\ Length_vocoder_frame = 0
    /\ Loop_counter = 0
    /\ first_pass = TRUE
    /\ bfi1 = 0
    /\ bfi2 = 0
    /\ bfi3 = 0
    /\ mode = 0
    /\ Interleaved_coded_array = Undef(SlotLen)
    /\ Coded_array = Undef(SlotLen)
    /\ Reordered_array = <<"Undef", 0>>
    /\ fin = 0
    /\ fout = <<>>
    /\ foutErr = FALSE
    /\ stdout = <<>>
    /\ calls = <<>>
    /\ nBad = 0
    /\ exitCode = -1

Init == InitFrom(Argvs, {SampleTabs})

\* Start of a run with any tables within the bounds.
TabInit == InitFrom(Argvs, TabFiles)

\* A line printed by puts/printf: its text and the number it carries.
Msg(text, n) == <<text, n>>

(* --------------------------- start of main ---------------------------- *)
Exit(code) ==
    /\ pc' = "exited"
    /\ exitCode' = code

\* cdecoder.c 79-90
ParseArgs ==
    /\ pc = "args"
    /\ UNCHANGED tabvars
    /\ IF (argc < 3) \/ (argc > 5)
       THEN /\ stdout' = Append(stdout, Msg("usage", 0))
            /\ Exit(1)
       ELSE /\ pc' = "open_in"
            /\ UNCHANGED <<stdout, exitCode>>
    /\ UNCHANGED <<sf, argv, CoderType, FRAME_STEALING, Frame_stealing,
                   SpFrms_per_TDMFrm, Length_vocoder_frame,
                   Loop_counter, first_pass, bfi1, bfi2, bfi3, mode,
                   Interleaved_coded_array, Coded_array, Reordered_array,
                   fin, fout, foutErr, calls, nBad>>

\* cdecoder.c 92-96
OpenInput ==
    /\ pc = "open_in"
    /\ UNCHANGED tabvars
    /\ \E ok \in BOOLEAN :
         IF ~ok
         THEN /\ stdout' = Append(stdout, Msg("cant_open_input", 0))
              /\ Exit(1)
         ELSE /\ pc' = "open_out"
              /\ UNCHANGED <<stdout, exitCode>>
    /\ UNCHANGED <<sf, argv, CoderType, FRAME_STEALING, Frame_stealing,
                   SpFrms_per_TDMFrm, Length_vocoder_frame,
                   Loop_counter, first_pass, bfi1, bfi2, bfi3, mode,
                   Interleaved_coded_array, Coded_array, Reordered_array,
                   fin, fout, foutErr, calls, nBad>>

\* cdecoder.c 98-102
OpenOutput ==
    /\ pc = "open_out"
    /\ UNCHANGED tabvars
    /\ \E ok \in BOOLEAN :
         IF ~ok
         THEN /\ stdout' = Append(stdout, Msg("cant_open_output", 0))
              /\ Exit(1)
         ELSE /\ pc' = "coder"
              /\ UNCHANGED <<stdout, exitCode>>
    /\ UNCHANGED <<sf, argv, CoderType, FRAME_STEALING, Frame_stealing,
                   SpFrms_per_TDMFrm, Length_vocoder_frame,
                   Loop_counter, first_pass, bfi1, bfi2, bfi3, mode,
                   Interleaved_coded_array, Coded_array, Reordered_array,
                   fin, fout, foutErr, calls, nBad>>

\* init_params.c 43 / 174
InitSpFrms(ct) == IF ct = 1 THEN 3 ELSE 2

\* init_params.c 70 / 195
InitLengthVocoderFrame(ct) ==
    IF ct = 1 THEN Length_vocoder_frame_AMR475 ELSE Length_vocoder_frame_TETRA

\* C integer division and remainder: the quotient is truncated toward zero.
CDiv(a, b) ==
    IF (a >= 0) = (b > 0) THEN (IF a >= 0 THEN a ELSE 0 - a) \div (IF b > 0 THEN b ELSE 0 - b)
    ELSE 0 - ((IF a >= 0 THEN a ELSE 0 - a) \div (IF b > 0 THEN b ELSE 0 - b))

CMod(a, b) == a - b * CDiv(a, b)

\* Mutant: the even case divides the negated entry.
ALLOW_NEG_negated(x, n12) ==
    IF x < 0
    THEN (IF CMod(0 - x, 2) = 1 THEN CDiv(0 - x, 2) - n12 + 1
          ELSE CDiv(0 - x, 2) + 1)
    ELSE x

\* init_params.c 35:
\* (((x) < 0) ? (((-x)%2 == 1) ?  (-x)/2 - N1_2 + 1 :  (x)/2 + 1) : (x))
ALLOW_NEG(x, n12) ==
    IF x < 0
    THEN (IF CMod(0 - x, 2) = 1 THEN CDiv(0 - x, 2) - n12 + 1
          ELSE CDiv(x, 2) + 1)
    ELSE x

\* A value stored in a Word16.
Word16(v) == ((v + 32768) % 65536) - 32768

\* init_params.c 52 / 183
InitN1_2(ct, t) == IF ct = 1 THEN t.N1_2_AMR475 ELSE t.N1_2_TETRA

\* init_params.c 112-137 / 221-246: TAB_CRCk[i] = ALLOW_NEG(TAB_CRCk_<coder>[i]),
\* old and new being N1_2 before and after its assignment
ConvertedTable(raw, old, new) ==
    [i \in 1..Len(raw) |-> Word16(ALLOW_NEG(raw[i], new))]

\* cdecoder.c 115
StealingRequested(s) == FirstChar(s) = "S"

\* cdecoder.c 104-121
SelectCoder ==
    /\ pc = "coder"
    /\ LET ct == IF argc >= 4 THEN atoi(Arg(3)) ELSE 0
       IN  IF (argc >= 4) /\ ((ct < 0) \/ (ct > 1))
           THEN /\ CoderType' = ct
                /\ stdout' = Append(stdout, Msg("illegal_coder_type", 0))
                /\ Exit(1)
                /\ UNCHANGED <<FRAME_STEALING, SpFrms_per_TDMFrm,
                               Length_vocoder_frame, N1_2, TAB_CRC>>
           ELSE /\ CoderType' = ct
                /\ FRAME_STEALING' =
                      IF (argc > 4) /\ StealingRequested(Arg(4))
                      THEN TRUE ELSE FRAME_STEALING
                /\ SpFrms_per_TDMFrm' = InitSpFrms(ct)
                /\ Length_vocoder_frame' = InitLengthVocoderFrame(ct)
                /\ N1_2' = InitN1_2(ct, tabs)
                /\ TAB_CRC' = ConvertedTable(tabs.TAB_CRC, N1_2, N1_2')
                /\ pc' = "read"
                /\ UNCHANGED <<stdout, exitCode>>
    /\ UNCHANGED tabs
    /\ UNCHANGED <<sf, argv, Frame_stealing,
                   Loop_counter, first_pass, bfi1, bfi2, bfi3, mode,
                   Interleaved_coded_array, Coded_array, Reordered_array,
                   fin, fout, foutErr, calls, nBad>>

(* ----------------------------- main loop ------------------------------ *)
\* Mutant: only the slot with index 2 is stolen.
StealingSchedule_once(lc) == IF lc = StealPhase THEN 1 ELSE 0

\* cdecoder.c 126: Frame_stealing = ((Loop_counter%10) == 2)
StealingSchedule(lc) == IF (lc % StealPeriod) = StealPhase THEN 1 ELSE 0

\* Read_Tetra_File: -1 at the end of the input, otherwise one slot is read.
Read_Tetra_File(pos) == IF pos < MaxSlots THEN {0, -1} ELSE {-1}

\* The 432 samples of slot k of the input file.
SlotSamples(k) == <<Run(SlotLen, "In", k, 0)>>

Call(f, init, fs, ret) == [f |-> f, init |-> init, fs |-> fs, ret |-> ret]

\* Mutant: the slot counter also counts the read that found the end of input.
ReadSlot_countsEof ==
    /\ pc = "read"
    /\ UNCHANGED tabvars
    /\ Frame_stealing' = IF FRAME_STEALING THEN StealingSchedule(Loop_counter)
                         ELSE Frame_stealing
    /\ \E r \in Read_Tetra_File(fin) :
         /\ calls' = <<Call("Read_Tetra_File", FALSE, 0, r)>>
         /\ IF r = -1
            THEN /\ stdout' = Append(stdout, Msg("end_of_input", 0))
                 /\ pc' = "summary"
                 /\ Loop_counter' = Loop_counter + 1
                 /\ UNCHANGED <<Interleaved_coded_array, fin>>
            ELSE /\ Interleaved_coded_array' = SlotSamples(fin)
                 /\ fin' = fin + 1
                 /\ pc' = "deint"
                 /\ UNCHANGED <<stdout, Loop_counter>>
    /\ UNCHANGED <<sf, argv, CoderType, FRAME_STEALING,
                   SpFrms_per_TDMFrm, Length_vocoder_frame,
                   first_pass, bfi1, bfi2, bfi3, mode,
                   Coded_array, Reordered_array,
                   fout, foutErr, nBad, exitCode>>

\* cdecoder.c 125-133
ReadSlot ==
    /\ pc = "read"
    /\ UNCHANGED tabvars
    /\ Frame_stealing' = IF FRAME_STEALING THEN StealingSchedule(Loop_counter)
                         ELSE Frame_stealing
    /\ \E r \in Read_Tetra_File(fin) :
         /\ calls' = <<Call("Read_Tetra_File", FALSE, 0, r)>>
         /\ IF r = -1
            THEN /\ stdout' = Append(stdout, Msg("end_of_input", 0))
                 /\ pc' = "summary"
                 /\ UNCHANGED <<Interleaved_coded_array, fin>>
            ELSE /\ Interleaved_coded_array' = SlotSamples(fin)
                 /\ fin' = fin + 1
                 /\ pc' = "deint"
                 /\ UNCHANGED stdout
    /\ UNCHANGED <<sf, argv, CoderType, FRAME_STEALING,
                   SpFrms_per_TDMFrm, Length_vocoder_frame,
                   Loop_counter, first_pass, bfi1, bfi2, bfi3, mode,
                   Coded_array, Reordered_array,
                   fout, foutErr, nBad, exitCode>>

\* Output j of the signalling deinterleaver applied to the 216 samples
\* that start at in[off].
Desinterleaving_Signalling(in, off) ==
    <<Run(HalfSlot, "Signalling", At(in, off)[2], 0)>>

\* Output j of the speech deinterleaver applied to the 432 samples of in.
Desinterleaving_Speech(in) ==
    <<Run(SlotLen, "Speech", At(in, 0)[2], 0)>>

\* Mutant: the first half-slot is copied one sample short.
Deinterleaved_short(fs, in) ==
    IF fs # 0
    THEN Slice(in, 0, HalfSlot - 1) \o Undef(1)
         \o Desinterleaving_Signalling(in, HalfSlot)
    ELSE Desinterleaving_Speech(in)

\* cdecoder.c 138-147: the new contents of Coded_array
Deinterleaved(fs, in) ==
    IF fs # 0
    THEN Slice(in, 0, HalfSlot) \o Desinterleaving_Signalling(in, HalfSlot)
    ELSE Desinterleaving_Speech(in)

\* cdecoder.c 138-147: the deinterleaver called
DeinterleaverCalled(fs) ==
    IF fs # 0 THEN "Desinterleaving_Signalling" ELSE "Desinterleaving_Speech"

\* cdecoder.c 138-147
Deinterleave ==
    /\ pc = "deint"
    /\ UNCHANGED tabvars
    /\ Coded_array' = Deinterleaved(Frame_stealing, Interleaved_coded_array)
    /\ calls' = Append(calls, Call(DeinterleaverCalled(Frame_stealing), FALSE, 0, 0))
    /\ pc' = "decode"
    /\ UNCHANGED <<sf, argv, CoderType, FRAME_STEALING, Frame_stealing,
                   SpFrms_per_TDMFrm, Length_vocoder_frame,
                   Loop_counter, first_pass, bfi1, bfi2, bfi3, mode,
                   Interleaved_coded_array, Reordered_array,
                   fin, fout, foutErr, stdout, nBad, exitCode>>

\* Channel_Decoding: the bad frame indicator it returns.
Channel_Decoding(bad) == IF bad < MaxBadFrames THEN {0, 1} ELSE {0}

\* Mutant: bfi1 is not preset from Frame_stealing.
TetraBfi1_nosteal(fs, r) == IF (fs = 0) /\ (r = 1) THEN 1 ELSE 0

\* cdecoder.c 158, 162
TetraBfi1(fs, r) == IF (fs = 0) /\ (r = 1) THEN 1 ELSE fs

\* cdecoder.c 159
TetraBfi2(fs, r) == r

\* cdecoder.c 172
AmrBfi1(fs, r) == r

\* Mutant: the decoder result is not carried over to bfi2.
AmrBfi2_nocross(fs, r) == fs

\* cdecoder.c 171, 175
AmrBfi2(fs, r) == IF (fs = 0) /\ (r = 1) THEN 1 ELSE fs

\* Mutant: a stolen slot is not reported.
DecodeMessages_quietSteal(fs, r, n) ==
    IF r # 0 THEN <<Msg("bfi_active", n)>> ELSE <<>>

\* cdecoder.c 156, 164 / 169, 177: the lines printed for slot number n
DecodeMessages(fs, r, n) ==
    (IF fs # 0 THEN <<Msg("was_stolen", n)>> ELSE <<>>)
    \o (IF r # 0 THEN <<Msg("bfi_active", n)>> ELSE <<>>)

\* Mutant: first_pass is not cleared after the first slot.
Decode_keepsFirstPass ==
    /\ pc = "decode"
    /\ UNCHANGED tabvars
    /\ \E r \in Channel_Decoding(nBad) :
         /\ calls' = Append(calls, Call("Channel_Decoding", first_pass, Frame_stealing, r))
         /\ nBad' = IF r # 0 THEN nBad + 1 ELSE nBad
         /\ bfi1' = IF CoderType = 0 THEN TetraBfi1(Frame_stealing, r)
                    ELSE AmrBfi1(Frame_stealing, r)
         /\ bfi2' = IF CoderType = 0 THEN TetraBfi2(Frame_stealing, r)
                    ELSE AmrBfi2(Frame_stealing, r)
         /\ stdout' = stdout \o DecodeMessages(Frame_stealing, r, Loop_counter + 1)
    /\ Reordered_array' = <<"Decoded", At(Coded_array, SlotLen - 1)[2]>>
    /\ first_pass' = first_pass
    /\ Loop_counter' = Loop_counter + 1
    /\ IF CoderType = 0
       THEN pc' = "t_bfi1" /\ sf' = sf
       ELSE pc' = "a_bfi" /\ sf' = 1
    /\ UNCHANGED <<argv, CoderType, FRAME_STEALING, Frame_stealing,
                   SpFrms_per_TDMFrm, Length_vocoder_frame,
                   bfi3, mode, Interleaved_coded_array, Coded_array,
                   fin, fout, foutErr, exitCode>>

\* cdecoder.c 153-182
Decode ==
    /\ pc = "decode"
    /\ UNCHANGED tabvars
    /\ \E r \in Channel_Decoding(nBad) :
         /\ calls' = Append(calls, Call("Channel_Decoding", first_pass, Frame_stealing, r))
         /\ nBad' = IF r # 0 THEN nBad + 1 ELSE nBad
         /\ bfi1' = IF CoderType = 0 THEN TetraBfi1(Frame_stealing, r)
                    ELSE AmrBfi1(Frame_stealing, r)
         /\ bfi2' = IF CoderType = 0 THEN TetraBfi2(Frame_stealing, r)
                    ELSE AmrBfi2(Frame_stealing, r)
         /\ stdout' = stdout \o DecodeMessages(Frame_stealing, r, Loop_counter + 1)
    /\ Reordered_array' = <<"Decoded", At(Coded_array, SlotLen - 1)[2]>>
    /\ first_pass' = FALSE
    /\ Loop_counter' = Loop_counter + 1
    /\ IF CoderType = 0
       THEN pc' = "t_bfi1" /\ sf' = sf
       ELSE pc' = "a_bfi" /\ sf' = 1
    /\ UNCHANGED <<argv, CoderType, FRAME_STEALING, Frame_stealing,
                   SpFrms_per_TDMFrm, Length_vocoder_frame,
                   bfi3, mode, Interleaved_coded_array, Coded_array,
                   fin, fout, foutErr, exitCode>>

(* ------------------------------ output -------------------------------- *)
\* Item counts fwrite may return short of n.
ShortCounts(n) == {k \in 0..(n - 1) : (k = 0) \/ (k = n - 1)}

\* Item counts fwrite may return for a request of n items: all of them, or
\* fewer; a stream that has failed takes nothing more.
Written(n) == IF foutErr THEN {0} ELSE {n} \cup ShortCounts(n)

\* A stretch of the output file: k items of 16 bits taken from src + off.
Segment(src, off, val, k) == [src |-> src, off |-> off, val |-> val, n |-> k]

Fwrite(f, src, off, val, k) ==
    IF k = 0 THEN f ELSE Append(f, Segment(src, off, val, k))

\* if( fwrite( ... ) != n ) { puts( "cdecoder: can't write to output_file" ); break; }
CheckedWrite(src, off, val, n, next, nextsf) ==
    \E k \in Written(n) :
      /\ fout' = Fwrite(fout, src, off, val, k)
      /\ foutErr' = (foutErr \/ (k # n))
      /\ IF k # n
         THEN /\ stdout' = Append(stdout, Msg("cant_write", 0))
              /\ pc' = "summary"
              /\ sf' = sf
         ELSE /\ pc' = next
              /\ sf' = nextsf
              /\ UNCHANGED stdout

\* fwrite( ... ) whose result is not looked at
UncheckedWrite(src, off, val, n, next, nextsf) ==
    \E k \in Written(n) :
      /\ fout' = Fwrite(fout, src, off, val, k)
      /\ foutErr' = (foutErr \/ (k # n))
      /\ pc' = next
      /\ sf' = nextsf
      /\ UNCHANGED stdout

\* cdecoder.c 188-191
TetraWriteBfi1 ==
    /\ pc = "t_bfi1"
    /\ UNCHANGED tabvars
    /\ CheckedWrite("bfi1", 0, bfi1, 1, "t_frame1", sf)
    /\ UNCHANGED <<argv, CoderType, FRAME_STEALING, Frame_stealing,
                   SpFrms_per_TDMFrm, Length_vocoder_frame,
                   Loop_counter, first_pass, bfi1, bfi2, bfi3, mode,
                   Interleaved_coded_array, Coded_array, Reordered_array,
                   fin, calls, nBad, exitCode>>

\* Mutant: the second speech frame is taken from the start of the array.
TetraFrameOffset_same(j) == 0

\* cdecoder.c 193, 204: where speech frame j starts in Reordered_array
TetraFrameOffset(j) == (j - 1) * TetraFrameLen

\* cdecoder.c 193-197
TetraWriteFrame1 ==
    /\ pc = "t_frame1"
    /\ UNCHANGED tabvars
    /\ CheckedWrite("Reordered_array", TetraFrameOffset(1), Reordered_array[2], TetraFrameLen, "t_bfi2", sf)
    /\ UNCHANGED <<argv, CoderType, FRAME_STEALING, Frame_stealing,
                   SpFrms_per_TDMFrm, Length_vocoder_frame,
                   Loop_counter, first_pass, bfi1, bfi2, bfi3, mode,
                   Interleaved_coded_array, Coded_array, Reordered_array,
                   fin, calls, nBad, exitCode>>

\* cdecoder.c 199-202
TetraWriteBfi2 ==
    /\ pc = "t_bfi2"
    /\ UNCHANGED tabvars
    /\ CheckedWrite("bfi2", 0, bfi2, 1, "t_frame2", sf)
    /\ UNCHANGED <<argv, CoderType, FRAME_STEALING, Frame_stealing,
                   SpFrms_per_TDMFrm, Length_vocoder_frame,
                   Loop_counter, first_pass, bfi1, bfi2, bfi3, mode,
                   Interleaved_coded_array, Coded_array, Reordered_array,
                   fin, calls, nBad, exitCode>>

\* cdecoder.c 204-208
TetraWriteFrame2 ==
    /\ pc = "t_frame2"
    /\ UNCHANGED tabvars
    /\ CheckedWrite("Reordered_array", TetraFrameOffset(2), Reordered_array[2], TetraFrameLen, "read", sf)
    /\ UNCHANGED <<argv, CoderType, FRAME_STEALING, Frame_stealing,
                   SpFrms_per_TDMFrm, Length_vocoder_frame,
                   Loop_counter, first_pass, bfi1, bfi2, bfi3, mode,
                   Interleaved_coded_array, Coded_array, Reordered_array,
                   fin, calls, nBad, exitCode>>

\* Mutant: all three headers are made from bfi1.
AmrHeaderSource_bfi1(j, b1, b2) == b1

\* Mutant: only the first header is made from bfi1.
AmrHeaderSource_first(j, b1, b2) == IF j = 1 THEN b1 ELSE b2

\* cdecoder.c 213, 228, 243: the indicator the header of speech frame j is made from
AmrHeaderSource(j, b1, b2) == IF j = 3 THEN b2 ELSE b1

\* cdecoder.c 213, 228, 243: if (b) bfi3 = 3; else bfi3 = 0;
Bfi3Of(b) == IF b # 0 THEN 3 ELSE 0

\* cdecoder.c 212-217, 228-232, 243-247
AmrWriteBfi ==
    /\ pc = "a_bfi"
    /\ UNCHANGED tabvars
    /\ mode' = IF sf = 1 THEN CoderType - 1 ELSE mode
    /\ bfi3' = Bfi3Of(AmrHeaderSource(sf, bfi1, bfi2))
    /\ CheckedWrite("bfi3", 0, bfi3', 1, "a_frame", sf)
    /\ UNCHANGED <<argv, CoderType, FRAME_STEALING, Frame_stealing,
                   SpFrms_per_TDMFrm, Length_vocoder_frame,
                   Loop_counter, first_pass, bfi1, bfi2,
                   Interleaved_coded_array, Coded_array, Reordered_array,
                   fin, calls, nBad, exitCode>>

\* cdecoder.c 219, 234, 249: where speech frame j starts in Reordered_array
AmrFrameOffset(j, lvf) == (j - 1) * lvf

\* cdecoder.c 219-223, 234-238, 249-253
AmrWriteFrame ==
    /\ pc = "a_frame"
    /\ UNCHANGED tabvars
    /\ CheckedWrite("Reordered_array", AmrFrameOffset(sf, Length_vocoder_frame),
                    Reordered_array[2], Length_vocoder_frame, "a_pad", sf)
    /\ UNCHANGED <<argv, CoderType, FRAME_STEALING, Frame_stealing,
                   SpFrms_per_TDMFrm, Length_vocoder_frame,
                   Loop_counter, first_pass, bfi1, bfi2, bfi3, mode,
                   Interleaved_coded_array, Coded_array, Reordered_array,
                   fin, calls, nBad, exitCode>>

\* Mutant: the padding does not allow for the frame bits.
AmrPadLen_full(lvf) == AmrRecordBits

\* cdecoder.c 224, 239, 254: 244 - Length_vocoder_frame
AmrPadLen(lvf) == AmrRecordBits - lvf

\* cdecoder.c 224, 239, 254
AmrWritePad ==
    /\ pc = "a_pad"
    /\ UNCHANGED tabvars
    /\ UncheckedWrite("Zeros", 0, 0, AmrPadLen(Length_vocoder_frame), "a_mode", sf)
    /\ UNCHANGED <<argv, CoderType, FRAME_STEALING, Frame_stealing,
                   SpFrms_per_TDMFrm, Length_vocoder_frame,
                   Loop_counter, first_pass, bfi1, bfi2, bfi3, mode,
                   Interleaved_coded_array, Coded_array, Reordered_array,
                   fin, calls, nBad, exitCode>>

\* cdecoder.c 225, 240, 255
AmrWriteMode ==
    /\ pc = "a_mode"
    /\ UNCHANGED tabvars
    /\ UncheckedWrite("mode", 0, mode, 1, "a_tail", sf)
    /\ UNCHANGED <<argv, CoderType, FRAME_STEALING, Frame_stealing,
                   SpFrms_per_TDMFrm, Length_vocoder_frame,
                   Loop_counter, first_pass, bfi1, bfi2, bfi3, mode,
                   Interleaved_coded_array, Coded_array, Reordered_array,
                   fin, calls, nBad, exitCode>>

\* cdecoder.c 226, 241, 256
AmrWriteTail ==
    /\ pc = "a_tail"
    /\ UNCHANGED tabvars
    /\ IF sf < 3
       THEN UncheckedWrite("Zeros", 0, 0, AmrTailLen, "a_bfi", sf + 1)
       ELSE UncheckedWrite("Zeros", 0, 0, AmrTailLen, "read", sf)
    /\ UNCHANGED <<argv, CoderType, FRAME_STEALING, Frame_stealing,
                   SpFrms_per_TDMFrm, Length_vocoder_frame,
                   Loop_counter, first_pass, bfi1, bfi2, bfi3, mode,
                   Interleaved_coded_array, Coded_array, Reordered_array,
                   fin, calls, nBad, exitCode>>

\* cdecoder.c 260-267
Summary ==
    /\ pc = "summary"
    /\ UNCHANGED tabvars
    /\ stdout' = stdout \o <<Msg("channel_frames_processed", Loop_counter),
                             Msg("speech_frames", SpFrms_per_TDMFrm * Loop_counter)>>
    /\ Exit(0)
    /\ UNCHANGED <<sf, argv, CoderType, FRAME_STEALING, Frame_stealing,
                   SpFrms_per_TDMFrm, Length_vocoder_frame,
                   Loop_counter, first_pass, bfi1, bfi2, bfi3, mode,
                   Interleaved_coded_array, Coded_array, Reordered_array,
                   fin, fout, foutErr, calls, nBad>>

Next ==
    \/ ParseArgs
    \/ OpenInput
    \/ OpenOutput
    \/ SelectCoder
    \/ ReadSlot
    \/ Deinterleave
    \/ Decode
    \/ TetraWriteBfi1
    \/ TetraWriteFrame1
    \/ TetraWriteBfi2
    \/ TetraWriteFrame2
    \/ AmrWriteBfi
    \/ AmrWriteFrame
    \/ AmrWritePad
    \/ AmrWriteMode
    \/ AmrWriteTail
    \/ Summary

Spec == Init /\ [][Next]_vars

\* main is a sequential program: it always takes its next step.
FairSpec == Spec /\ WF_vars(Next)

\* The run up to the return of init_params, for any tables.
TabNext ==
    \/ ParseArgs
    \/ OpenInput
    \/ OpenOutput
    \/ SelectCoder

TabSpec == TabInit /\ [][TabNext]_vars

TypeOK ==
    /\ pc \in {"args", "open_in", "open_out", "coder", "read", "deint", "decode",
               "t_bfi1", "t_frame1", "t_bfi2", "t_frame2",
               "a_bfi", "a_frame", "a_pad", "a_mode", "a_tail",
               "summary", "exited"}
    /\ sf \in 0..3
    /\ CoderType \in -1..2
    /\ Frame_stealing \in {0, 1}
    /\ Loop_counter \in 0..MaxSlots
    /\ fin \in 0..MaxSlots
    /\ exitCode \in {-1, 0, 1}

(* ======================= properties of the decoder ==================== *)
RECURSIVE Samples(_)
\* Number of 16-bit samples in a sequence of segments.
Samples(f) == IF f = <<>> THEN 0 ELSE f[1].n + Samples(Tail(f))

\* Bytes in the output file.
OutputBytes == SizeofShort * Samples(fout)

Finished == pc = "exited"

\* The four segments slot s (0-based) contributes in TETRA mode.
TetraSlotLayout(s) ==
    LET b == 4 * s
    IN  /\ fout[b + 1].src = "bfi1" /\ fout[b + 1].n = 1
        /\ fout[b + 2] = [src |-> "Reordered_array", off |-> 0, val |-> s, n |-> 137]
        /\ fout[b + 3].src = "bfi2" /\ fout[b + 3].n = 1
        /\ fout[b + 4] = [src |-> "Reordered_array", off |-> 137, val |-> s, n |-> 137]

TetraFraming ==
    /\ OutputBytes = 552 * Loop_counter
    /\ Len(fout) = 4 * Loop_counter
    /\ \A s \in 0..(Loop_counter - 1) : TetraSlotLayout(s)

AmrFrameLayout(s, j) ==
    LET b == 15 * s + 5 * (j - 1)
    IN  /\ fout[b + 1].src = "bfi3" /\ fout[b + 1].n = 1
        /\ fout[b + 2] = [src |-> "Reordered_array", off |-> (j - 1) * Length_vocoder_frame,
                          val |-> s, n |-> Length_vocoder_frame]
        /\ fout[b + 3] = [src |-> "Zeros", off |-> 0, val |-> 0,
                          n |-> 244 - Length_vocoder_frame]
        /\ fout[b + 4] = [src |-> "mode", off |-> 0, val |-> CoderType - 1, n |-> 1]
        /\ fout[b + 5] = [src |-> "Zeros", off |-> 0, val |-> 0, n |-> 4]
        /\ Samples(SubSeq(fout, b + 1, b + 5)) = 250

AmrFraming ==
    /\ OutputBytes = 1500 * Loop_counter
    /\ Len(fout) = 15 * Loop_counter
    /\ \A s \in 0..(Loop_counter - 1) : \A j \in 1..3 : AmrFrameLayout(s, j)

Decoded == Len(calls) = 3

DecodeRet == calls[3].ret

\* main is writing the slot it has just decoded.
Emitting == pc \in {"t_bfi1", "t_frame1", "t_bfi2", "t_frame2",
                    "a_bfi", "a_frame", "a_pad", "a_mode", "a_tail"}

\* 0-based index of the slot in progress, between its read and its decoding.
SlotIndex == Loop_counter

\* C3: in TETRA mode the bfi1 written for a slot processed with
\* Frame_stealing = 1 is 1 whatever Channel_Decoding returned, and with the
\* simulation enabled the bfi1 of slots 2, 12, 22, ... is 1.
C3_StolenBfi1 ==
    /\ (pc = "t_frame1" /\ Frame_stealing = 1)
          => (fout[Len(fout)].src = "bfi1" /\ fout[Len(fout)].val = 1)
    /\ (CoderType = 0 /\ FRAME_STEALING)
          => \A i \in 1..Len(fout) :
                (fout[i].src = "bfi1" /\ ((i - 1) \div 4) % 10 = 2)
                   => fout[i].val = 1

C3_Witness ==
    /\ pc = "t_frame1" /\ Frame_stealing = 1 /\ Loop_counter = 13
    /\ Decoded /\ DecodeRet = 0
    /\ fout[Len(fout)] = [src |-> "bfi1", off |-> 0, val |-> 1, n |-> 1]

C5_WriteFailureStops ==
    foutErr =>
       /\ pc \in {"summary", "exited"}
       /\ \E i \in 1..Len(stdout) : stdout[i] = Msg("cant_write", 0)
       /\ (pc = "exited" => exitCode = 0)

\* Read_Tetra_File has reported the end of the input.
AtEndOfInput == Len(calls) = 1 /\ calls[1].ret = -1

SummaryPrinted ==
    /\ Len(stdout) >= 3
    /\ stdout[Len(stdout) - 2] = Msg("end_of_input", 0)
    /\ stdout[Len(stdout) - 1] = Msg("channel_frames_processed", Loop_counter)
    /\ stdout[Len(stdout)] = Msg("speech_frames", SpFrms_per_TDMFrm * Loop_counter)

\* C6: every run terminates; when Read_Tetra_File reports the end of the
\* input the loop is left at once, with nothing deinterleaved, decoded or
\* written for that slot and Loop_counter not incremented, then the summary
\* is printed and the exit code is 0.
C6_CleanTermination ==
    /\ <>(pc = "exited")
    /\ [](AtEndOfInput => (pc \in {"summary", "exited"} /\ Loop_counter = fin))
    /\ [][(pc = "read" /\ pc' = "summary")
            => /\ AtEndOfInput'
               /\ UNCHANGED <<Loop_counter, Coded_array, Reordered_array,
                              fout, bfi1, bfi2, first_pass>>]_vars
    /\ [][AtEndOfInput
            => UNCHANGED <<Loop_counter, Coded_array, Reordered_array,
                           fout, calls>>]_vars
    /\ []((AtEndOfInput /\ pc = "exited") => (exitCode = 0 /\ SummaryPrinted))
    /\ (AtEndOfInput ~> (pc = "exited" /\ exitCode = 0))

C6_Witness ==
    /\ AtEndOfInput /\ pc = "exited" /\ exitCode = 0
    /\ Loop_counter = 3 /\ fin = 3 /\ SummaryPrinted

\* C7 (as stated): slot k is processed as stolen exactly when the fifth
\* argument is the token S and k mod 10 = 2; without the simulation
\* Frame_stealing is 0 throughout.
C7_Original ==
    LET enabled == (argc = 5) /\ (Arg(4) = <<"S">>)
    IN  /\ (pc \in {"deint", "decode"})
             => ((Frame_stealing # 0) <=> (enabled /\ SlotIndex % 10 = 2))
        /\ (~enabled) => (Frame_stealing = 0)

\* C7 (amended): slot k is processed as stolen exactly when the fifth
\* argument begins with the character S and k mod 10 = 2; without such an
\* argument Frame_stealing is 0 throughout.
C7_StealingSchedule ==
    LET enabled == (argc = 5) /\ (Len(Arg(4)) >= 1) /\ (Arg(4)[1] = "S")
    IN  /\ (pc \in {"deint", "decode"})
             => ((Frame_stealing # 0) <=> (enabled /\ SlotIndex % 10 = 2))
        /\ (~enabled) => (Frame_stealing = 0)

C7_Witness ==
    /\ pc = "deint" /\ SlotIndex = 12 /\ Frame_stealing # 0
    /\ argc = 5 /\ Arg(4) = <<"S", "X">>

\* C8: for every slot exactly one deinterleaver is called, before
\* Channel_Decoding: on a stolen slot the signalling deinterleaver, on
\* samples 216..431, with Coded_array[0..215] a copy of
\* Interleaved_coded_array[0..215]; otherwise the speech deinterleaver on
\* the whole slot.
C8_Deinterleaving ==
    /\ (pc = "decode") =>
          /\ Len(calls) = 2
          /\ calls[1].f = "Read_Tetra_File"
          /\ IF Frame_stealing # 0
             THEN /\ calls[2].f = "Desinterleaving_Signalling"
                  /\ \A i \in 0..215 :
                        At(Coded_array, i) = At(Interleaved_coded_array, i)
                  /\ \A i \in 216..431 :
                        At(Coded_array, i) = <<"Signalling", SlotIndex, i - 216>>
             ELSE /\ calls[2].f = "Desinterleaving_Speech"
                  /\ \A i \in 0..431 :
                        At(Coded_array, i) = <<"Speech", SlotIndex, i>>
    /\ Decoded =>
          /\ calls[2].f = (IF Frame_stealing # 0 THEN "Desinterleaving_Signalling"
                           ELSE "Desinterleaving_Speech")
          /\ calls[3].f = "Channel_Decoding"

C8_Witness ==
    /\ pc = "decode" /\ Frame_stealing # 0 /\ SlotIndex = 2
    /\ At(Coded_array, 215) = <<"In", 2, 215>>
    /\ At(Coded_array, 216) = <<"Signalling", 2, 0>>

\* C9: while a slot is written, if it is not stolen and Channel_Decoding
\* returned 1 then bfi1 = bfi2 = 1 (the result itself is bfi2 in TETRA
\* mode and bfi1 in AMR475 mode); if it is stolen the other indicator is 1
\* whatever Channel_Decoding returned.
C9_CrossPollination ==
    Emitting =>
       /\ Decoded
       /\ (IF CoderType = 0 THEN bfi2 ELSE bfi1) = DecodeRet
       /\ (Frame_stealing = 0 /\ DecodeRet = 1) => (bfi1 = 1 /\ bfi2 = 1)
       /\ (Frame_stealing # 0) => ((IF CoderType = 0 THEN bfi1 ELSE bfi2) = 1)

C9_Witness ==
    /\ Emitting /\ CoderType = 1 /\ Frame_stealing = 0
    /\ Decoded /\ DecodeRet = 1 /\ bfi1 = 1 /\ bfi2 = 1

\* C10: in AMR475 mode the headers of the first and second speech frame
\* are 3 if bfi1 is non-zero and 0 otherwise, the header of the third is 3
\* if bfi2 is non-zero and 0 otherwise; no other header value is written.
C10_AmrHeaders ==
    /\ (pc = "a_frame") =>
          /\ fout[Len(fout)].src = "bfi3"
          /\ fout[Len(fout)].val =
                (IF sf \in {1, 2} THEN (IF bfi1 # 0 THEN 3 ELSE 0)
                 ELSE (IF bfi2 # 0 THEN 3 ELSE 0))
    /\ \A i \in 1..Len(fout) : fout[i].src = "bfi3" => fout[i].val \in {0, 3}

C10_Witness ==
    /\ pc = "a_frame" /\ sf = 2 /\ bfi1 = 0 /\ bfi2 # 0
    /\ fout[Len(fout)] = [src |-> "bfi3", off |-> 0, val |-> 0, n |-> 1]

\* C11: the Initialization flag passed to Channel_Decoding is TRUE for the
\* first slot of a run and FALSE for every later slot; once first_pass is
\* cleared it is never set again.
C11_FirstPass ==
    /\ [](Decoded => /\ calls[3].f = "Channel_Decoding"
                     /\ (calls[3].init <=> (Loop_counter = 1)))
    /\ [][(~first_pass) => (~first_pass')]_vars

C11_Witness ==
    /\ Decoded /\ Loop_counter = 2 /\ calls[3].init = FALSE /\ ~first_pass
    /\ pc \in {"t_bfi1", "a_bfi"}

\* C13: while a slot is written, if bfi1 or bfi2 is non-zero then
\* "Frame Nb n was stolen" or "Frame Nb n Bfi active" has been printed,
\* n being the 1-based number of the slot.
C13_NoSilentBadFrame ==
    (Emitting /\ (bfi1 # 0 \/ bfi2 # 0)) =>
       \E i \in 1..Len(stdout) :
          \/ stdout[i] = <<"was_stolen", Loop_counter>>
          \/ stdout[i] = <<"bfi_active", Loop_counter>>

C13_Witness ==
    /\ Emitting /\ Frame_stealing # 0 /\ Decoded /\ DecodeRet = 0
    /\ bfi1 + bfi2 = 1 /\ Loop_counter = 13
    /\ stdout[Len(stdout)] = <<"was_stolen", 13>>

\* init_params has returned.
ParamsSet == pc \notin {"args", "open_in", "open_out", "coder"} /\ exitCode # 1

\* The value claimed for a raw entry x, with n the N1_2 of the coder type.
ClaimedEntry(x, n) ==
    IF x >= 0 THEN x
    ELSE IF (0 - x) % 2 = 1 THEN ((0 - x) \div 2) - n + 1
    ELSE 1 - ((0 - x) \div 2)

\* C12: after init_params every stored CRC table entry is ALLOW_NEG of the
\* raw entry x: x if x >= 0; (-x)/2 - N1_2 + 1 if x < 0 and -x is odd;
\* x/2 + 1, the quotient truncated toward zero, if x < 0 and -x is even;
\* N1_2 being the value of the selected coder type.
C12_AllowNeg ==
    ParamsSet =>
       /\ N1_2 = (IF CoderType = 1 THEN tabs.N1_2_AMR475 ELSE tabs.N1_2_TETRA)
       /\ Len(TAB_CRC) = Len(tabs.TAB_CRC)
       /\ \A i \in 1..Len(TAB_CRC) :
             TAB_CRC[i] = ClaimedEntry(tabs.TAB_CRC[i], N1_2)

C12_Witness ==
    /\ ParamsSet /\ CoderType = 1 /\ N1_2 = 2
    /\ tabs.TAB_CRC = <<-3, -4>>
    /\ TAB_CRC = <<0, -1>>

====
